---------------------------- MODULE Spec2Model ----------------------------
(***************************************************************************)
(* A model of tools/pyang_plugins/bgpyang2rust.py: the pyang output plugin  *)
(* that turns a set of YANG modules into Rust type definitions.             *)
(*                                                                         *)
(* The plugin is one batch run, RustPlugin.emit:                            *)
(*   check_module_deps  (module ordering, prefix aliases)                   *)
(*   visit_modules      (typedef / identity registries, struct registry)    *)
(*   emit_go            (aliases, enumerations, structs)                    *)
(* Each loop iteration of these phases is one action.  The statement trees  *)
(* pyang hands to the plugin are the input; they are drawn from bounded     *)
(* families in the initial states.                                          *)
(***************************************************************************)
EXTENDS Integers, Sequences, FiniteSets, TLC

VARIABLES
    yang,       \* the loaded modules and their statement trees (input)
    modules,    \* the modules emit() has been handed so far (input, in order)
    ctx,        \* the attributes emit() hangs on pyang's ctx object
    attr,       \* the attributes the visitor hangs on statements
    fd,         \* the definitions printed so far
    pc          \* position inside emit()

vars == <<yang, modules, ctx, attr, fd, pc>>

\* Python's None where a module or a statement is expected (those are numbered from 1).
None == 0

(***************************************************************************)
(* Bounds of the input families.                                           *)
(***************************************************************************)
NMods == 3
MaxNodes == 4
MaxCases == 2
MaxChain == 2
MaxFields == 2
MaxDefs == 2

(***************************************************************************)
(* Generic helpers: sequences, ordered dictionaries, Python strings.       *)
(***************************************************************************)
Range(s) == {s[i] : i \in DOMAIN s}

\* F applied to a value computed once.
Bind(x, F(_)) == F(x)

IndexOf(s, x) == CHOOSE i \in DOMAIN s : s[i] = x /\ \A j \in 1..(i - 1) : s[j] # x

Reverse(s) == [i \in 1..Len(s) |-> s[Len(s) + 1 - i]]

Perms(S) == {p \in [1..Cardinality(S) -> S] : \A i, j \in DOMAIN p : i # j => p[i] # p[j]}

\* The numbers of a set in ascending order.
RECURSIVE Ascending(_)
Ascending(S) ==
    IF S = {} THEN <<>>
    ELSE LET m == CHOOSE x \in S : \A y \in S : x <= y
         IN  <<m>> \o Ascending(S \ {m})

RECURSIVE Concat(_)
Concat(ss) == IF ss = <<>> THEN <<>> ELSE Head(ss) \o Concat(Tail(ss))

\* A Python dict is a sequence of <<key, value>> pairs in insertion order.
DictHas(d, k) == \E i \in DOMAIN d : d[i][1] = k

DictGet(d, k) == d[CHOOSE i \in DOMAIN d : d[i][1] = k][2]

\* d[k] = v: a new key goes last, an existing key keeps its place.
DictPut(d, k, v) ==
    IF DictHas(d, k)
    THEN [i \in DOMAIN d |-> IF d[i][1] = k THEN <<k, v>> ELSE d[i]]
    ELSE Append(d, <<k, v>>)

\* str.lower() and str.upper() of one character.
LowerCase == "abcdefghijklmnopqrstuvwxyz"

UpperCase == "ABCDEFGHIJKLMNOPQRSTUVWXYZ"

LowerOf ==
    [c \in {SubSeq(UpperCase, i, i) : i \in 1..Len(UpperCase)} |->
        LET i == CHOOSE i \in 1..Len(UpperCase) : SubSeq(UpperCase, i, i) = c
        IN  SubSeq(LowerCase, i, i)]

UpperOf ==
    [c \in {SubSeq(LowerCase, i, i) : i \in 1..Len(LowerCase)} |->
        LET i == CHOOSE i \in 1..Len(LowerCase) : SubSeq(LowerCase, i, i) = c
        IN  SubSeq(UpperCase, i, i)]

LowerCh(c) == IF c \in DOMAIN LowerOf THEN LowerOf[c] ELSE c

UpperCh(c) == IF c \in DOMAIN UpperOf THEN UpperOf[c] ELSE c

RECURSIVE StrLower(_)
StrLower(s) == IF s = "" THEN "" ELSE LowerCh(SubSeq(s, 1, 1)) \o StrLower(SubSeq(s, 2, Len(s)))

\* str.capitalize(): first character upper case, the rest lower case.
Capitalize(s) == IF s = "" THEN "" ELSE UpperCh(SubSeq(s, 1, 1)) \o StrLower(SubSeq(s, 2, Len(s)))

StartsWith(s, p) == Len(p) <= Len(s) /\ SubSeq(s, 1, Len(p)) = p

EndsWith(s, p) == Len(p) <= Len(s) /\ SubSeq(s, Len(s) - Len(p) + 1, Len(s)) = p

\* str.split(sep) for a one-character separator.
RECURSIVE SplitFrom(_, _, _)
SplitFrom(s, sep, cur) ==
    IF s = "" THEN <<cur>>
    ELSE IF SubSeq(s, 1, 1) = sep
         THEN <<cur>> \o SplitFrom(SubSeq(s, 2, Len(s)), sep, "")
         ELSE SplitFrom(SubSeq(s, 2, Len(s)), sep, cur \o SubSeq(s, 1, 1))

Split(s, sep) == SplitFrom(s, sep, "")

RECURSIVE Join(_, _)
Join(ss, sep) ==
    IF ss = <<>> THEN ""
    ELSE IF Len(ss) = 1 THEN ss[1] ELSE ss[1] \o sep \o Join(Tail(ss), sep)

\* 'hoge-hoge' -> 'HogeHoge'
convert_to_golang(type_string) ==
    LET a == Split(type_string, ".")
    IN  Join([i \in DOMAIN a |->
                 LET x == Split(a[i], "-")
                 IN  Join([j \in DOMAIN x |-> Capitalize(x[j])], "")], ".")

(***************************************************************************)
(* The fixed tables.                                                       *)
(***************************************************************************)
module_excluded == {"ietf-inet-types", "ietf-yang-types"}


(***************************************************************************)
(* The modules pyang has loaded.  A module m is a number; yang.module[m]   *)
(* holds i_modulename, i_prefix and i_prefixes, the table                  *)
(* prefix -> module name that pyang builds from the module's own prefix    *)
(* statement and its imports, as the sequence its items() yields.          *)
(***************************************************************************)
Mods == 1..NMods

ModPrefix(m) == <<"pa", "pb", "pc", "pd", "pe", "pf">>[m]

ModName(m) == <<"ma", "mb", "mc", "md", "me", "mf">>[m]

\* The alias an importer that renames its imports gives to a module.
AliasOf(importer, target) == ModPrefix(importer) \o "x" \o ModPrefix(target)

\* ctx.get_module(name): the loaded module of that name, or None.
get_module(name) ==
    IF \E m \in yang.loaded : yang.module[m].i_modulename = name
    THEN CHOOSE m \in yang.loaded : yang.module[m].i_modulename = name
    ELSE None

\* The modules m imports (by its i_prefixes table) that are loaded.
ImportsOf(m) ==
    {get_module(e[2]) : e \in Range(yang.module[m].i_prefixes)} \ {None, m}

(***************************************************************************)
(* check_module_deps                                                       *)
(***************************************************************************)
\* the membership test left out: the module is appended on every visit
should_append_nocheck(c, mod) ==
    yang.module[mod].i_modulename \notin module_excluded

should_append(c, mod) ==
    /\ mod \notin Range(c.module_deps)
    /\ yang.module[mod].i_modulename \notin module_excluded

RECURSIVE check_module_deps(_, _)
RECURSIVE check_items(_, _, _, _)
check_items(c, own_prefix, items, i) ==
    IF i > Len(items) THEN c
    ELSE LET k == items[i][1]
             mod == get_module(items[i][2])
         IN  IF mod = None THEN check_items(c, own_prefix, items, i + 1)
             ELSE LET c1 == IF yang.module[mod].i_prefix # own_prefix
                            THEN check_module_deps(c, mod)
                            ELSE c
                      c2 == [c1 EXCEPT !.prefix_rel =
                                DictPut(@, yang.module[mod].i_prefix, k)]
                      c3 == IF should_append(c2, mod)
                            THEN [c2 EXCEPT !.module_deps = Append(@, mod)]
                            ELSE c2
                  IN  check_items(c3, own_prefix, items, i + 1)

check_module_deps(c, mod) ==
    check_items(c, yang.module[mod].i_prefix, yang.module[mod].i_prefixes, 1)

(***************************************************************************)
(* RustPlugin.emit, first half: the fresh ctx attributes and the loop      *)
(* "for m in modules: check_module_deps(ctx, m)".                          *)
(***************************************************************************)
EmptyCtx ==
    [golang_identity_map |-> <<>>,
     golang_typedef_map  |-> <<>>,
     golang_struct_def   |-> <<>>,
     golang_struct_names |-> <<>>,
     emitted_type_names  |-> <<>>,
     prefix_rel          |-> <<>>,
     module_deps         |-> <<>>,
     heap                |-> <<>>]

\* One iteration of the loop: emit() is handed one more module.
EmitCheckDeps ==
    /\ pc.phase = "deps"
    /\ \E m \in yang.loaded \ Range(modules) :
          /\ modules' = Append(modules, m)
          /\ ctx' = check_module_deps(ctx, m)
    /\ UNCHANGED <<yang, attr, fd, pc>>

\* The whole loop over a given list of modules, from the fresh ctx.
RECURSIVE RunDeps(_, _)
RunDeps(c, ms) == IF ms = <<>> THEN c ELSE RunDeps(check_module_deps(c, Head(ms)), Tail(ms))

(***************************************************************************)
(* Input family of the dependency resolver: every acyclic import graph on  *)
(* NMods modules (a module imports lower-numbered ones), every iteration   *)
(* order of every i_prefixes table, importers that use the imported        *)
(* module's own prefix or an alias of their own, a first module that may   *)
(* be one of the excluded foundational modules or may not be loaded.       *)
(***************************************************************************)
PrefixTables(m, renames) ==
    {[i \in DOMAIN p |->
        IF p[i] = m THEN <<ModPrefix(m), m>>
        ELSE <<IF renames THEN AliasOf(m, p[i]) ELSE ModPrefix(p[i]), p[i]>>] :
     p \in UNION {Perms({m} \cup S) : S \in SUBSET (1..(m - 1))}}

RECURSIVE TableFamilies(_, _)
TableFamilies(n, renamers) ==
    IF n = 0 THEN {<<>>}
    ELSE {Append(f, t) : f \in TableFamilies(n - 1, renamers),
                         t \in PrefixTables(n, n \in renamers)}

DepsModule(tables, first, m) ==
    LET name(x) == IF x = 1 /\ first = "excluded" THEN "ietf-inet-types" ELSE ModName(x)
    IN  [i_modulename |-> name(m),
         i_prefix     |-> ModPrefix(m),
         i_prefixes   |-> [i \in DOMAIN tables[m] |->
                              <<tables[m][i][1], name(tables[m][i][2])>>],
         i_orig_module |-> None,
         substmts     |-> <<>>,
         i_children   |-> <<>>]

DepsInputs ==
    {[loaded |-> IF first = "absent" THEN Mods \ {1} ELSE Mods,
      module |-> [m \in Mods |-> DepsModule(tables, first, m)],
      stmt   |-> <<>>] :
        tables \in UNION {TableFamilies(NMods, r) : r \in {{}, Mods}},
        first \in {"plain", "excluded", "absent"}}

InitDeps ==
    /\ yang \in DepsInputs
    /\ modules = <<>>
    /\ ctx = EmptyCtx
    /\ attr = <<>>
    /\ fd = <<>>
    /\ pc = [phase |-> "deps"]

NextDeps == EmitCheckDeps

SpecDeps == InitDeps /\ [][NextDeps]_vars


(***************************************************************************)
(* Statements.  yang.stmt[n] is pyang's statement n: keyword, arg, parent  *)
(* (None for a statement directly under its module), i_module,             *)
(* i_orig_module, its type substatement (NoType when it has none), the     *)
(* base of an identity, and the i_children pyang computed.  attr[n] holds  *)
(* what the plugin writes on the statement: uniq_name, golang_name,        *)
(* module_prefix, the replaced i_children and i_orig_module, and the       *)
(* identities appended to substmts.                                        *)
(***************************************************************************)
Unset == "<unset>"

NoType ==
    [arg |-> "", base |-> "", path |-> "", i_target_node |-> None,
     enums |-> <<>>, spec_name |-> "", i_orig_module |-> None]

Stmt(n) == yang.stmt[n]

is_leafref(t) == t.arg = "leafref"

is_identityref(t) == t.arg = "identityref"

is_enum(t) == t.arg = "enumeration"

is_union(t) == t.arg = "union"

is_typedef(n) == Stmt(n).keyword = "typedef"

is_identity(n) == Stmt(n).keyword = "identity"

is_leaf(n) == Stmt(n).keyword = "leaf"

is_leaflist(n) == Stmt(n).keyword = "leaf-list"

is_list(n) == Stmt(n).keyword = "list"

is_container(n) == Stmt(n).keyword = "container"

is_case(n) == Stmt(n).keyword = "case"

is_choice(n) == Stmt(n).keyword = "choice"

\* hasattr(c, 'i_children'): pyang gives i_children to the statements that hold data nodes.
has_i_children(n) == Stmt(n).keyword \in {"container", "list", "choice", "case"}

type_enum_case == {"empty"}

\* all(e.search_one('type').arg in _type_enum_case for e in children): "error"
\* when the scan reaches a child without a type statement before it stops.
RECURSIVE enum_choice_scan(_)
enum_choice_scan(children) ==
    IF children = <<>> THEN "true"
    ELSE IF Stmt(Head(children)).type = NoType THEN "error"
    ELSE IF Stmt(Head(children)).type.arg \in type_enum_case
         THEN enum_choice_scan(Tail(children))
         ELSE "false"

is_enum_choice(at, n) == enum_choice_scan(at[n].i_children) = "true"

get_orig_prefix(mod) ==
    IF yang.module[mod].i_orig_module # None
    THEN Unset
    ELSE yang.module[mod].i_prefix

RECURSIVE get_path(_)
get_path(n) ==
    LET p == yang.module[Stmt(n).i_module].i_prefix \o ":"
        up == IF Stmt(n).parent = None THEN "" ELSE get_path(Stmt(n).parent)
    IN  up \o "/" \o p \o Stmt(n).arg

pickup_choice(at, c) ==
    Concat([i \in DOMAIN at[c].i_children |->
               IF is_case(at[c].i_children[i])
               THEN at[at[c].i_children[i]].i_children
               ELSE <<>>])

\* The attributes of the statements before any visit.
InitAttr(stmts) ==
    [n \in DOMAIN stmts |->
        [uniq_name     |-> Unset,
         golang_name   |-> Unset,
         module_prefix |-> Unset,
         i_children    |-> stmts[n].i_children,
         i_orig_module |-> stmts[n].i_orig_module,
         substmts      |-> <<>>]]

(***************************************************************************)
(* The typedef and identity registries.  ctx.golang_typedef_map and        *)
(* ctx.golang_identity_map map a prefix to a dict object; two prefixes can *)
(* hold the same object, so the dicts live in ctx.heap and the maps hold   *)
(* references (indices into the heap).                                     *)
(***************************************************************************)
HeapNew(c, d) == [c EXCEPT !.heap = Append(@, d)]

\* define container embedded enums
define_enum(c, at, mod, n) ==
    LET prefix == yang.module[mod].i_prefix
        at1 == [at EXCEPT ![n].golang_name = convert_to_golang(Stmt(n).arg)]
    IN  IF DictHas(c.golang_typedef_map, prefix)
        THEN LET ref == DictGet(c.golang_typedef_map, prefix)
             IN  [ctx  |-> [c EXCEPT !.heap[ref] = DictPut(@, Stmt(n).arg, n)],
                  attr |-> at1]
        ELSE LET c1 == HeapNew(c, <<<<Stmt(n).arg, n>>>>)
             IN  [ctx  |-> [c1 EXCEPT !.golang_typedef_map =
                                DictPut(@, prefix, Len(c1.heap))],
                  attr |-> at1]

RECURSIVE typedef_child_map(_, _)
typedef_child_map(substmts, m) ==
    IF substmts = <<>> THEN m
    ELSE typedef_child_map(Tail(substmts),
            IF is_typedef(Head(substmts))
            THEN DictPut(m, Stmt(Head(substmts)).arg, Head(substmts))
            ELSE m)

visit_typedef(c, at, mod) ==
    LET prefix == yang.module[mod].i_prefix
        subs == yang.module[mod].substmts
        at1 == [n \in DOMAIN at |->
                   IF n \in Range(subs) /\ is_typedef(n)
                   THEN [at[n] EXCEPT !.golang_name = convert_to_golang(Stmt(n).arg)]
                   ELSE at[n]]
        c1 == HeapNew(c, typedef_child_map(subs, <<>>))
        ref == Len(c1.heap)
        c2 == [c1 EXCEPT !.golang_typedef_map = DictPut(@, prefix, ref)]
        prefix_rel == DictGet(c.prefix_rel, prefix)
    IN  [ctx  |-> [c2 EXCEPT !.golang_typedef_map = DictPut(@, prefix_rel, ref)],
         attr |-> at1,
         error |-> ""]

\* The loop of visit_identity over the identity statements of a module:
\* r is [ctx, attr, child_map, error].
RECURSIVE identity_loop(_, _)
identity_loop(r, substmts) ==
    IF substmts = <<>> \/ r.error # "" THEN r
    ELSE LET n == Head(substmts)
             rest == Tail(substmts)
         IN
         IF ~is_identity(n) THEN identity_loop(r, rest)
         ELSE
         LET at1 == [r.attr EXCEPT ![n].golang_name = convert_to_golang(Stmt(n).arg)]
             cm == DictPut(r.child_map, Stmt(n).arg, n)
             r1 == [r EXCEPT !.attr = at1, !.child_map = cm]
             base == Stmt(n).base
         IN
         IF base = "" THEN identity_loop(r1, rest)
         ELSE IF Len(Split(base, ":")) > 1
         THEN LET base_prefix == Split(base, ":")[1]
                  base_name == Join(Tail(Split(base, ":")), ":")
              IN  IF DictHas(r.ctx.golang_identity_map, base_prefix)
                  THEN LET d == r.ctx.heap[DictGet(r.ctx.golang_identity_map, base_prefix)]
                       IN  IF DictHas(d, base_name)
                           THEN identity_loop(
                                  [r1 EXCEPT !.attr[DictGet(d, base_name)].substmts =
                                                 Append(@, n)], rest)
                           ELSE [r1 EXCEPT !.error = "KeyError"]
                  ELSE identity_loop(r1, rest)
         ELSE IF DictHas(cm, base)
              THEN identity_loop(
                     [r1 EXCEPT !.attr[DictGet(cm, base)].substmts = Append(@, n)], rest)
              ELSE [r1 EXCEPT !.error = "KeyError"]

visit_identity(c, at, mod) ==
    LET prefix == yang.module[mod].i_prefix
        prefix_rel == DictGet(c.prefix_rel, prefix)
    IN  Bind(identity_loop([ctx |-> c, attr |-> at, child_map |-> <<>>, error |-> ""],
                           yang.module[mod].substmts),
             LAMBDA r :
                IF r.error # "" THEN [ctx |-> r.ctx, attr |-> r.attr, error |-> r.error]
                ELSE [ctx  |-> [r.ctx EXCEPT
                                 !.heap = Append(@, r.child_map),
                                 !.golang_identity_map =
                                     DictPut(DictPut(@, prefix, Len(r.ctx.heap) + 1),
                                             prefix_rel, Len(r.ctx.heap) + 1)],
                      attr |-> r.attr,
                      error |-> ""])

(***************************************************************************)
(* visit_children: the struct registry.                                    *)
(***************************************************************************)
\* a tie replaces too
should_replace_on_tie(ext_c_child_count, current_c_child_count) ==
    ext_c_child_count <= current_c_child_count

should_replace(ext_c_child_count, current_c_child_count) ==
    ext_c_child_count < current_c_child_count

\* the new node appended, the old one left where it stands
replace_by_append(def, ext_c, n) == Append(def, n)

replace_in_place(def, ext_c, n) == [def EXCEPT ![IndexOf(def, ext_c)] = n]

\* Lines 356-369: register n under prefix:uniq_name, or merge with the
\* statement already registered under that key.
register_struct(c, at, prefix, n) ==
    LET prefix_name == prefix \o ":" \o at[n].uniq_name
    IN  IF DictHas(c.golang_struct_names, prefix_name)
        THEN LET ext_c == DictGet(c.golang_struct_names, prefix_name)
             IN  IF should_replace(Len(at[ext_c].i_children), Len(at[n].i_children))
                 THEN [ctx  |-> [c EXCEPT
                                  !.golang_struct_names = DictPut(@, prefix_name, n),
                                  !.golang_struct_def = replace_in_place(@, ext_c, n)],
                       attr |-> [at EXCEPT ![n].module_prefix = prefix]]
                 ELSE [ctx |-> c, attr |-> at]
        ELSE [ctx  |-> [c EXCEPT
                         !.golang_struct_names = DictPut(@, prefix_name, n),
                         !.golang_struct_def = Append(@, n)],
              attr |-> [at EXCEPT ![n].module_prefix = prefix]]

\* c.uniq_name, lines 333-341.
uniq_name_of(at, n, prefix) ==
    LET parent_uniq == IF Stmt(n).parent = None THEN Unset
                       ELSE at[Stmt(n).parent].uniq_name
    IN  IF Stmt(n).arg = "config" THEN parent_uniq \o "-config"
        ELSE IF Stmt(n).arg = "state" THEN parent_uniq \o "-state"
        ELSE IF Stmt(n).arg = "graceful-restart" /\ prefix = "bgp-mp"
             THEN "mp-graceful-restart"
        ELSE Stmt(n).arg

\* One iteration of the loop of visit_children, without the recursive call:
\* the new ctx and attributes, whether the loop body reached the recursion
\* on c.i_children, and the exception that ended the run ("" when none).
visit_child(c, at, mod, n) ==
    LET at0 == IF is_case(n)
               THEN [at EXCEPT ![n].i_orig_module = at[Stmt(n).parent].i_orig_module]
               ELSE at
        prefix == get_orig_prefix(at0[n].i_orig_module)
        at1 == [at0 EXCEPT ![n].uniq_name = uniq_name_of(at0, n, prefix)]
        done(cc, aa, descend, err) ==
            [ctx |-> cc, attr |-> aa, descend |-> descend, error |-> err]
    IN  IF /\ Stmt(n).arg \in {"config", "state"}
           /\ (Stmt(n).parent = None \/ at0[Stmt(n).parent].uniq_name = Unset)
        THEN done(c, at0, FALSE, "AttributeError")
        ELSE IF is_leaf(n) /\ is_enum(Stmt(n).type)
        THEN LET r == define_enum(c, at1, mod, n)
             IN  done(r.ctx, r.attr, has_i_children(n), "")
        ELSE IF is_list(n) \/ is_container(n) \/ is_choice(n)
        THEN LET at2 == [at1 EXCEPT ![n].golang_name = convert_to_golang(at1[n].uniq_name)]
                 at3 == IF is_choice(n)
                        THEN [at2 EXCEPT ![n].i_children = pickup_choice(at2, n)]
                        ELSE at2
             IN  IF is_choice(n) /\ enum_choice_scan(at3[n].i_children) = "error"
                 THEN done(c, at3, FALSE, "AttributeError")
                 ELSE IF is_choice(n) /\ is_enum_choice(at3, n)
                 THEN LET r == define_enum(c, at3, mod, n)
                      IN  done(r.ctx, r.attr, FALSE, "")
                 ELSE LET r == register_struct(c, at3, prefix, n)
                      IN  done(r.ctx, r.attr, has_i_children(n), "")
        ELSE done(c, at1, has_i_children(n), "")

(***************************************************************************)
(* visit_modules as actions.                                               *)
(***************************************************************************)
Crash(exc) == [phase |-> "error", exc |-> exc]

\* One iteration of the first loop: visit_typedef and visit_identity.
visit_typedef_identity(c, at, mod) ==
    Bind(visit_typedef(c, at, mod), LAMBDA r1 : visit_identity(r1.ctx, r1.attr, mod))

VisitTypedefIdentity ==
    /\ pc.phase = "visit_typedef"
    /\ Bind(visit_typedef_identity(ctx, attr, ctx.module_deps[pc.mi]),
            LAMBDA r2 :
               /\ ctx' = r2.ctx
               /\ attr' = r2.attr
               /\ pc' = IF r2.error # "" THEN Crash(r2.error)
                        ELSE IF pc.mi < Len(ctx.module_deps)
                        THEN [pc EXCEPT !.mi = @ + 1]
                        ELSE [phase |-> "visit_children", mi |-> 1, mod |-> None,
                              todo |-> <<>>])
    /\ UNCHANGED <<yang, modules, fd>>

\* One iteration of the second loop begins: visit_children(ctx, mod, mod.i_children).
VisitModule ==
    /\ pc.phase = "visit_children"
    /\ pc.todo = <<>>
    /\ pc.mi <= Len(ctx.module_deps)
    /\ pc' = [pc EXCEPT !.mi = @ + 1,
                        !.mod = ctx.module_deps[pc.mi],
                        !.todo = yang.module[ctx.module_deps[pc.mi]].i_children]
    /\ UNCHANGED <<yang, modules, ctx, attr, fd>>

\* One iteration of the loop of visit_children; the recursive call on
\* c.i_children is the statements put in front of the ones still to visit.
VisitChild ==
    /\ pc.phase = "visit_children"
    /\ pc.todo # <<>>
    /\ Bind(visit_child(ctx, attr, pc.mod, Head(pc.todo)),
            LAMBDA r :
               /\ ctx' = r.ctx
               /\ attr' = r.attr
               /\ pc' = IF r.error # "" THEN Crash(r.error)
                        ELSE [pc EXCEPT !.todo =
                                (IF r.descend THEN r.attr[Head(pc.todo)].i_children
                                 ELSE <<>>) \o Tail(@)])
    /\ UNCHANGED <<yang, modules, fd>>

(***************************************************************************)
(* Type resolution: the translation tables and emit_class_def.             *)
(***************************************************************************)
type_translation_map ==
    << <<"union", "String">>, <<"decimal64", "f64">>, <<"boolean", "bool">>,
       <<"empty", "bool">>, <<"inet:ip-address", "String">>,
       <<"inet:ip-prefix", "String">>, <<"inet:ipv4-address", "String">>,
       <<"inet:as-number", "u32">>, <<"bgp-set-community-option-type", "String">>,
       <<"inet:port-number", "u16">>, <<"yang:timeticks", "i64">>,
       <<"ptypes:install-protocol-type", "String">>, <<"binary", "Vec<u8>">>,
       <<"route-family", "u32">>, <<"bgp-capability", "Vec<u8>">>,
       <<"bgp-open-message", "Vec<u8>">> >>

builtins_type_translation_map ==
    << <<"union", "String">>, <<"int8", "i8">>, <<"int16", "i16">>,
       <<"int32", "i32">>, <<"int64", "i64">>, <<"string", "String">>,
       <<"uint8", "u8">>, <<"uint16", "u16">>, <<"uint32", "u32">>,
       <<"uint64", "u64">> >>

type_builtin ==
    {"union", "int8", "int16", "int32", "int64", "string",
     "uint8", "uint16", "uint32", "uint64"}

path_exclude ==
    {"/rpol:routing-policy/rpol:defined-sets/rpol:neighbor-sets/rpol:neighbor-set/rpol:neighbor",
     "/rpol:routing-policy/rpol:defined-sets/bgp-pol:bgp-defined-sets/bgp-pol:community-sets/bgp-pol:community-set/bgp-pol:community-member",
     "/rpol:routing-policy/rpol:defined-sets/bgp-pol:bgp-defined-sets/bgp-pol:ext-community-sets/bgp-pol:ext-community-set/bgp-pol:ext-community-member",
     "/rpol:routing-policy/rpol:defined-sets/bgp-pol:bgp-defined-sets/bgp-pol:as-path-sets/bgp-pol:as-path-set/bgp-pol:as-path-set-member"}

typedef_exclude == {"/gobgp:bgp-capability", "/gobgp:bgp-open-message"}

is_builtin_type(t) == t.arg \in type_builtin

is_translation_required(t) == DictHas(type_translation_map, t.arg)

translate_type(key) ==
    IF DictHas(type_translation_map, key) THEN DictGet(type_translation_map, key) ELSE key

\* A resolved type name, or the exception the lookup raises.
Resolved(name) == [name |-> name, skip |-> FALSE, error |-> ""]

Raised(exc) == [name |-> "", skip |-> FALSE, error |-> exc]

Dropped == [name |-> "", skip |-> TRUE, error |-> ""]

\* _builtins_type_translation_map[key]
builtin_lookup(key) ==
    IF DictHas(builtins_type_translation_map, key)
    THEN Resolved(DictGet(builtins_type_translation_map, key))
    ELSE Raised("KeyError")

\* the type found at the end of a chain of leafrefs
RECURSIVE dig_leafref(_)
dig_leafref(type_obj) ==
    LET reftype == Stmt(type_obj.i_target_node).type
    IN  IF is_leafref(reftype) THEN dig_leafref(reftype) ELSE reftype

\* lookup(basemap, default_prefix, key): a statement, None, or the key itself
\* (a string) when the prefix is not registered.
lookup(c, basemap, default_prefix, key) ==
    LET parts == Split(key, ":")
        pref == IF Len(parts) > 1 THEN parts[1] ELSE default_prefix
        name == IF Len(parts) > 1 THEN parts[2] ELSE key
    IN  IF DictHas(basemap, pref)
        THEN LET d == c.heap[DictGet(basemap, pref)]
             IN  IF DictHas(d, name) THEN [found |-> TRUE, stmt |-> DictGet(d, name)]
                 ELSE [found |-> FALSE, stmt |-> None]
        ELSE [found |-> FALSE, stmt |-> None]

lookup_typedef(c, default_prefix, type_name) ==
    lookup(c, c.golang_typedef_map, default_prefix, type_name)

\* t = lookup_typedef(...); t.golang_name
typedef_golang_name(c, at, type_obj) ==
    LET base_module == yang.module[type_obj.i_orig_module].i_prefix
        t == lookup_typedef(c, base_module, type_obj.arg)
    IN  IF t.found THEN Resolved(at[t.stmt].golang_name) ELSE Raised("AttributeError")

identityref_name(type_obj) ==
    LET parts == Split(type_obj.base, ":")
    IN  convert_to_golang(parts[Len(parts)])

\* the leafref branch of a leaf, lines 172-182
leaf_leafref_type_name(type_obj) ==
    IF StartsWith(type_obj.path, "../config") THEN Dropped
    ELSE LET t == dig_leafref(type_obj)
         IN  IF is_translation_required(t) THEN Resolved(translate_type(t.arg))
             ELSE IF is_identityref(t) THEN Resolved(identityref_name(t))
             ELSE builtin_lookup(t.arg)

\* "case leaf", lines 163-202
leaf_type_name(c, at, child) ==
    LET type_obj == Stmt(child).type
        type_name == type_obj.arg
    IN  IF is_identityref(type_obj) THEN Resolved(identityref_name(type_obj))
        ELSE IF is_leafref(type_obj) THEN leaf_leafref_type_name(type_obj)
        ELSE IF is_enum(type_obj) THEN Resolved(convert_to_golang(Stmt(child).arg))
        ELSE IF is_translation_required(type_obj) THEN Resolved(translate_type(type_name))
        ELSE IF is_builtin_type(type_obj) THEN builtin_lookup(type_name)
        ELSE typedef_golang_name(c, at, type_obj)

\* the element type of "case leaflist", lines 212-241
leaflist_elem_type_name(c, at, child) ==
    LET type_obj == Stmt(child).type
        type_name == type_obj.arg
    IN  IF is_leafref(type_obj) THEN builtin_lookup(dig_leafref(type_obj).arg)
        ELSE IF is_identityref(type_obj) THEN Resolved(identityref_name(type_obj))
        ELSE IF is_translation_required(type_obj) THEN Resolved(translate_type(type_name))
        ELSE IF is_builtin_type(type_obj) THEN builtin_lookup(type_name)
        ELSE typedef_golang_name(c, at, type_obj)

Vec(r) == IF r.error # "" \/ r.skip THEN r ELSE Resolved("Vec<" \o r.name \o ">")

\* c.search_one('leaf'): the first leaf substatement of a list, or None
RECURSIVE first_leaf(_)
first_leaf(children) ==
    IF children = <<>> THEN None
    ELSE IF is_leaf(Head(children)) THEN Head(children)
    ELSE first_leaf(Tail(children))

\* "case container" and "case list", lines 244-268: the type name and the
\* registered struct it names.
struct_field_type(c, at, child, child_prefix) ==
    LET key == child_prefix \o ":" \o at[child].uniq_name
    IN  IF ~DictHas(c.golang_struct_names, key)
        THEN [name |-> "", skip |-> FALSE, error |-> "KeyError", ref |-> None]
        ELSE
        LET t == DictGet(c.golang_struct_names, key)
        IN  IF is_list(child)
            THEN [name |-> "Vec<" \o at[t].golang_name \o ">", skip |-> FALSE,
                  error |-> "", ref |-> t]
            ELSE IF Len(at[t].i_children) = 1 /\ is_list(at[t].i_children[1])
            THEN LET l == at[t].i_children[1]
                 IN  IF first_leaf(Stmt(l).i_children) = None
                     THEN [name |-> "", skip |-> FALSE, error |-> "AttributeError",
                           ref |-> None]
                     ELSE [name |-> "Vec<" \o at[l].golang_name \o ">", skip |-> FALSE,
                           error |-> "", ref |-> l]
            ELSE [name |-> at[t].golang_name, skip |-> FALSE, error |-> "", ref |-> t]

\* lines 272 and 275
is_config_or_state(name, struct_name, suffix) ==
    StartsWith(name, convert_to_golang(struct_name)) /\ EndsWith(name, suffix)

\* lines 216 and 265
list_tag(tag_name) == tag_name \o "-list"

\* One iteration of the loop of emit_class_def over stmt.i_children: the
\* field printed for child (skip: none is printed), or the exception raised.
\* tag is the wire name serde reads, type the Rust type inside Option<>,
\* ref the registered struct a container, list or choice field names.
class_field(c, at, struct_name, child) ==
    LET val_name_go == convert_to_golang(Stmt(child).arg)
        child_prefix == get_orig_prefix(at[child].i_orig_module)
        tag0 == StrLower(at[child].uniq_name)
        none == [tag |-> "", type |-> "", ref |-> None, child |-> child]
        skipped == [skip |-> TRUE, error |-> "", field |-> none]
        failed(exc) == [skip |-> FALSE, error |-> exc, field |-> none]
        leaf == IF is_leaf(child) THEN leaf_type_name(c, at, child) ELSE Resolved("")
    IN  IF get_path(child) \in path_exclude THEN skipped
        ELSE IF leaf.skip THEN skipped
        ELSE IF leaf.error # "" THEN failed(leaf.error)
        ELSE IF is_case(child) THEN skipped
        ELSE
        LET r == IF is_leaflist(child)
                 THEN Vec(leaflist_elem_type_name(c, at, child)) @@ [ref |-> None]
                 ELSE IF is_container(child) \/ (is_choice(child) /\ ~is_enum_choice(at, child))
                         \/ is_list(child)
                 THEN struct_field_type(c, at, child, child_prefix)
                 ELSE IF is_choice(child)
                 THEN Resolved(val_name_go) @@ [ref |-> None]
                 ELSE leaf @@ [ref |-> None]
            tag1 == IF is_leaflist(child) \/ is_list(child) THEN list_tag(tag0) ELSE tag0
            tag2 == IF is_container(child) /\ is_config_or_state(r.name, struct_name, "Config")
                    THEN "config"
                    ELSE IF is_container(child) /\ is_config_or_state(r.name, struct_name, "State")
                    THEN "state"
                    ELSE tag1
        IN  IF r.error # "" THEN failed(r.error)
            ELSE [skip |-> FALSE, error |-> "",
                  field |-> [tag |-> tag2, type |-> r.name, ref |-> r.ref, child |-> child]]

RECURSIVE class_fields(_, _, _, _, _)
class_fields(c, at, struct_name, children, acc) ==
    IF children = <<>> THEN [fields |-> acc, error |-> ""]
    ELSE Bind(class_field(c, at, struct_name, Head(children)),
              LAMBDA f :
                 IF f.error # "" THEN [fields |-> acc, error |-> f.error]
                 ELSE class_fields(c, at, struct_name, Tail(children),
                                   IF f.skip THEN acc ELSE Append(acc, f.field)))

\* emit_class_def: nothing is printed for a struct whose only child is a list.
emit_class_def(c, at, stmt, struct_name, prefix) ==
    IF Len(at[stmt].i_children) = 1 /\ is_list(at[stmt].i_children[1])
    THEN [printed |-> FALSE, error |-> "", item |-> <<>>]
    ELSE Bind(class_fields(c, at, struct_name, at[stmt].i_children, <<>>),
              LAMBDA r :
                 [printed |-> r.error = "", error |-> r.error,
                  item |-> [kind |-> "struct", name |-> convert_to_golang(struct_name),
                            stmt |-> stmt, fields |-> r.fields, variants |-> <<>>,
                            target |-> ""]])

(***************************************************************************)
(* emit_enum, emit_typedef, emit_identity.                                 *)
(***************************************************************************)
\* ''.join(x.title() for x in re.split('_|-', type_string)), for words of letters
convert_to_camelcase(type_string) ==
    LET a == Split(type_string, "-")
    IN  Join([i \in DOMAIN a |->
                 LET x == Split(a[i], "_")
                 IN  Join([j \in DOMAIN x |-> Capitalize(x[j])], "")], "")

\* The enumeration emit_enum prints for stmt: its variants are the args of
\* substmts, after 'none' for a collapsed choice.
emit_enum(at, stmt, args) ==
    LET all == IF is_choice(stmt) /\ is_enum_choice(at, stmt)
               THEN <<"none">> \o args ELSE args
    IN  [kind |-> "enum", name |-> at[stmt].golang_name, stmt |-> stmt,
         fields |-> <<>>,
         variants |-> [i \in DOMAIN all |->
                          [arg |-> all[i], enum_name |-> convert_to_camelcase(all[i])]],
         target |-> ""]

Alias(at, stmt, target) ==
    [kind |-> "alias", name |-> at[stmt].golang_name, stmt |-> stmt,
     fields |-> <<>>, variants |-> <<>>, target |-> target]

\* get_type_spec(stmt): the i_type_spec.name of the type substatement, if any
get_type_spec(stmt) == Stmt(stmt).type.spec_name

\* the target of 'type X = ...;', lines 561-578
alias_target(c, at, t0) ==
    LET t == IF is_leafref(t0) THEN dig_leafref(t0) ELSE t0
        parts == Split(t.arg, ":")
    IN  IF is_builtin_type(t) THEN builtin_lookup(t.arg)
        ELSE IF is_translation_required(t) THEN Resolved(translate_type(t.arg))
        ELSE IF ~DictHas(c.golang_typedef_map, parts[1]) THEN Raised("KeyError")
        ELSE IF Len(parts) = 1 THEN Raised("AttributeError")
        ELSE LET d == c.heap[DictGet(c.golang_typedef_map, parts[1])]
             IN  IF DictHas(d, parts[2]) THEN Resolved(at[DictGet(d, parts[2])].golang_name)
                 ELSE Raised("KeyError")

\* line 544
already_emitted(c, type_name) == DictHas(c.emitted_type_names, type_name)

\* The loop of emit_typedef over t_map.items(); r is [ctx, fd, error].
RECURSIVE typedef_loop(_, _, _, _)
typedef_loop(r, at, prefix, items) ==
    IF items = <<>> \/ r.error # "" THEN r
    ELSE
    LET name == Head(items)[1]
        stmt == Head(items)[2]
        rest == Tail(items)
        type_name == at[stmt].golang_name
        t == Stmt(stmt).type
        marked == [r.ctx EXCEPT !.emitted_type_names =
                      DictPut(@, type_name, prefix \o ":" \o name)]
        out(item) == [r EXCEPT !.ctx = marked, !.fd = Append(@, item)]
    IN  IF get_path(stmt) \in typedef_exclude THEN typedef_loop(r, at, prefix, rest)
        ELSE IF get_type_spec(stmt) = "identityref" THEN typedef_loop(r, at, prefix, rest)
        ELSE IF already_emitted(r.ctx, type_name) THEN typedef_loop(r, at, prefix, rest)
        ELSE IF t = NoType /\ is_choice(stmt)
        THEN typedef_loop(
                out(emit_enum(at, stmt,
                      [i \in DOMAIN at[stmt].i_children |-> Stmt(at[stmt].i_children[i]).arg])),
                at, prefix, rest)
        ELSE IF t = NoType THEN [r EXCEPT !.ctx = marked, !.error = "AttributeError"]
        ELSE IF is_enum(t)
        THEN typedef_loop(out(emit_enum(at, stmt, t.enums)), at, prefix, rest)
        ELSE IF is_union(t)
        THEN typedef_loop(out(Alias(at, stmt, "String")), at, prefix, rest)
        ELSE LET a == alias_target(marked, at, t)
             IN  IF a.error # "" THEN [r EXCEPT !.ctx = marked, !.error = a.error]
                 ELSE typedef_loop(out(Alias(at, stmt, a.name)), at, prefix, rest)

emit_typedef(c, at, out, mod) ==
    LET prefix == yang.module[mod].i_prefix
    IN  typedef_loop([ctx |-> c, fd |-> out, error |-> ""], at, prefix,
                     c.heap[DictGet(c.golang_typedef_map, prefix)])

\* The loop of emit_identity over i_map.items().
RECURSIVE identity_emit_loop(_, _, _)
identity_emit_loop(out, at, items) ==
    IF items = <<>> THEN out
    ELSE LET stmt == Head(items)[2]
             enums == at[stmt].substmts
         IN  identity_emit_loop(
                IF Len(enums) > 0
                THEN Append(out, emit_enum(at, stmt, [i \in DOMAIN enums |-> Stmt(enums[i]).arg]))
                ELSE out,
                at, Tail(items))

emit_identity(c, at, out, mod) ==
    identity_emit_loop(out, at,
        c.heap[DictGet(c.golang_identity_map, yang.module[mod].i_prefix)])

(***************************************************************************)
(* emit_go as actions.                                                     *)
(***************************************************************************)
\* visit_modules has returned; emit_go reverses the registry and prints the header.
EmitGoBegin ==
    /\ pc.phase = "visit_children"
    /\ pc.todo = <<>>
    /\ pc.mi > Len(ctx.module_deps)
    /\ ctx' = [ctx EXCEPT !.golang_struct_def = Reverse(@)]
    /\ pc' = [phase |-> "emit_modules", mi |-> 1, done |-> {}]
    /\ UNCHANGED <<yang, modules, attr, fd>>

\* One iteration of the loop over ctx.module_deps: emit_typedef, emit_identity.
EmitGoModule ==
    /\ pc.phase = "emit_modules"
    /\ LET mod == ctx.module_deps[pc.mi]
           r == emit_typedef(ctx, attr, fd, mod)
       IN  /\ ctx' = r.ctx
           /\ fd' = IF r.error # "" THEN r.fd ELSE emit_identity(r.ctx, attr, r.fd, mod)
           /\ pc' = IF r.error # "" THEN Crash(r.error)
                    ELSE IF pc.mi < Len(ctx.module_deps)
                    THEN [pc EXCEPT !.mi = @ + 1]
                    ELSE [phase |-> "emit_structs", si |-> 1, done |-> {}]
    /\ UNCHANGED <<yang, modules, attr>>

\* One iteration of the loop over the reversed ctx.golang_struct_def.
EmitGoStruct ==
    /\ pc.phase = "emit_structs"
    /\ pc.si <= Len(ctx.golang_struct_def)
    /\ LET struct == ctx.golang_struct_def[pc.si]
           struct_name == attr[struct].uniq_name
       IN  IF struct_name \in pc.done
           THEN /\ pc' = [pc EXCEPT !.si = @ + 1]
                /\ fd' = fd
           ELSE Bind(emit_class_def(ctx, attr, struct, struct_name,
                                    attr[struct].module_prefix),
                     LAMBDA r :
                        /\ fd' = IF r.printed THEN Append(fd, r.item) ELSE fd
                        /\ pc' = IF r.error # "" THEN Crash(r.error)
                                 ELSE [pc EXCEPT !.si = @ + 1,
                                                 !.done = @ \cup {struct_name}])
    /\ UNCHANGED <<yang, modules, ctx, attr>>

\* emit() has returned.
Finished == pc.phase = "emit_structs" /\ pc.si > Len(ctx.golang_struct_def)

NextEmit ==
    \/ VisitTypedefIdentity
    \/ VisitModule
    \/ VisitChild
    \/ EmitGoBegin
    \/ EmitGoModule
    \/ EmitGoStruct

(***************************************************************************)
(* Input families of the visitor and the emitter.  Every family is a set   *)
(* of statement trees of one module "ma" (prefix "pa") handed to emit();   *)
(* the run starts where check_module_deps has returned.                    *)
(***************************************************************************)
\* A statement as pyang hands it over.
MkStmt(keyword, arg, parent, type, base, i_children) ==
    [keyword |-> keyword, arg |-> arg, parent |-> parent, i_module |-> 1,
     i_orig_module |-> 1, type |-> type, base |-> base, i_children |-> i_children]

SimpleType(arg) ==
    [arg |-> arg, base |-> "", path |-> "", i_target_node |-> None,
     enums |-> <<>>, spec_name |-> arg, i_orig_module |-> 1]

\* the statements whose parent is n, in document order
ChildrenOf(parents, n) ==
    LET S == {i \in DOMAIN parents : parents[i] = n}
    IN  Ascending(S)

OneModule(substmts, top, stmts) ==
    [loaded |-> {1},
     module |-> <<[i_modulename |-> ModName(1),
                   i_prefix     |-> ModPrefix(1),
                   i_prefixes   |-> <<<<ModPrefix(1), ModName(1)>>>>,
                   i_orig_module |-> None,
                   substmts     |-> substmts,
                   i_children   |-> top]>>,
     stmt |-> stmts]

InitRun(input) ==
    /\ yang = input
    /\ modules = <<1>>
    /\ ctx = RunDeps(EmptyCtx, modules)
    /\ attr = InitAttr(yang.stmt)
    /\ fd = <<>>
    /\ pc = [phase |-> "visit_typedef", mi |-> 1]

(***************************************************************************)
(* The tree family: every ordered forest of MaxNodes statements, numbered  *)
(* in document order (the order visit_children discovers them), each       *)
(* statement one of TreeShapes.  A leaf has no children, and the children  *)
(* of a choice are its cases.                                              *)
(***************************************************************************)
TreeShapes ==
    {[keyword |-> "container", arg |-> "a"],
     [keyword |-> "container", arg |-> "b"],
     [keyword |-> "container", arg |-> "config"],
     [keyword |-> "list", arg |-> "a"],
     [keyword |-> "choice", arg |-> "a"],
     [keyword |-> "case", arg |-> "c"],
     [keyword |-> "leaf", arg |-> "x"]}

RECURSIVE Ancestors(_, _)
Ancestors(parents, n) == IF n = None THEN {None} ELSE {n} \cup Ancestors(parents, parents[n])

\* parents[n] is the parent of statement n: document order means the parent
\* of n is the statement before it, or an ancestor of that one, or the module.
RECURSIVE ParentSeqs(_)
ParentSeqs(n) ==
    IF n = 0 THEN {<<>>}
    ELSE UNION {{Append(p, q) : q \in IF n = 1 THEN {None} ELSE Ancestors(p, n - 1)} :
                p \in ParentSeqs(n - 1)}

TreeStmts(parents, shape) ==
    [n \in 1..MaxNodes |->
        MkStmt(shape[n].keyword, shape[n].arg, parents[n],
               IF shape[n].keyword = "leaf" THEN SimpleType("uint32") ELSE NoType,
               "", ChildrenOf(parents, n))]

InitTree ==
    \E parents \in ParentSeqs(MaxNodes) :
        \E shape \in [1..MaxNodes -> TreeShapes] :
            /\ \A n \in 1..MaxNodes :
                  /\ parents[n] # None => shape[parents[n]].keyword # "leaf"
                  /\ shape[n].keyword = "case"
                        <=> parents[n] # None /\ shape[parents[n]].keyword = "choice"
            /\ InitRun(OneModule(<<>>, ChildrenOf(parents, None),
                                 TreeStmts(parents, shape)))

SpecTree == InitTree /\ [][NextEmit]_vars

\* visit_modules alone, on the same trees
NextVisit ==
    \/ VisitTypedefIdentity
    \/ VisitModule
    \/ VisitChild

SpecVisit == InitTree /\ [][NextVisit]_vars

(***************************************************************************)
(* The leaf family: container foo { container tgt|config { leaf t0 of a     *)
(* concrete type, leaf t1 a leafref to t0, ... }  leaf|leaf-list x }, where *)
(* x is declared with the concrete type itself (and tgt is empty) or as a   *)
(* leafref to the last t, at the end of a chain of 1..MaxChain leafrefs.    *)
(* The module declares typedef my-type.                                     *)
(***************************************************************************)
ConcreteTypes == {"uint32", "string", "boolean", "enumeration", "identityref", "my-type"}

\* the type statement of a leaf declared directly with a concrete type
Direct(t) ==
    IF t = "enumeration" THEN [SimpleType(t) EXCEPT !.enums = <<"up", "down">>]
    ELSE IF t = "identityref" THEN [SimpleType(t) EXCEPT !.base = "pa:idn"]
    ELSE SimpleType(t)

\* type leafref { path ...; } whose path leads to the statement target
Leafref(target, path) ==
    [SimpleType("leafref") EXCEPT !.path = path, !.i_target_node = target]

TargetNames == <<"t0", "t1", "t2", "t3">>

LeafStmts(t, chain, tname, keyword) ==
    LET foo == 2
        tgt == 3
        target(i) == 4 + i
        x == 4 + chain
    IN  [n \in 1..x |->
            IF n = 1 THEN MkStmt("typedef", "my-type", None, SimpleType("uint32"), "", <<>>)
            ELSE IF n = foo THEN MkStmt("container", "foo", None, NoType, "", <<tgt, x>>)
            ELSE IF n = tgt
            THEN MkStmt("container", tname, foo, NoType, "",
                        [i \in 1..chain |-> target(i - 1)])
            ELSE IF n = x
            THEN MkStmt(keyword, "x", foo,
                        IF chain = 0 THEN Direct(t)
                        ELSE Leafref(target(chain - 1),
                                     "../" \o tname \o "/" \o TargetNames[chain]),
                        "", <<>>)
            ELSE MkStmt("leaf", TargetNames[n - 3], tgt,
                        IF n = target(0) THEN Direct(t)
                        ELSE Leafref(n - 1, "../" \o TargetNames[n - 4]),
                        "", <<>>)]

InitLeaf ==
    \E t \in ConcreteTypes, chain \in 0..MaxChain, tname \in {"tgt", "config"},
       keyword \in {"leaf", "leaf-list"} :
        InitRun(OneModule(<<1>>, <<2>>, LeafStmts(t, chain, tname, keyword)))

SpecLeaf == InitLeaf /\ [][NextEmit]_vars

(***************************************************************************)
(* The field family: container foo with 1..MaxFields children of pairwise   *)
(* distinct names, each a leaf, a leaf-list, a container or a list keyed by *)
(* its leaf k.                                                              *)
(***************************************************************************)
FieldNames == {"a", "a-list", "config", "foo-x-config", "state"}

FieldKeywords == {"leaf", "leaf-list", "container", "list"}

FieldShapes == [keyword : FieldKeywords, arg : FieldNames]

\* the statement of field i: fields are numbered in document order, the key
\* leaf of a list right after the list
FieldId(shapes, i) ==
    1 + i + Cardinality({j \in 1..(i - 1) : shapes[j].keyword = "list"})

FieldStmts(shapes) ==
    LET last == FieldId(shapes, Len(shapes) + 1) - 1
        isfield(n) == \E i \in DOMAIN shapes : FieldId(shapes, i) = n
        field(n) == CHOOSE i \in DOMAIN shapes : FieldId(shapes, i) = n
    IN  [n \in 1..last |->
            IF n = 1
            THEN MkStmt("container", "foo", None, NoType, "",
                        [i \in DOMAIN shapes |-> FieldId(shapes, i)])
            ELSE IF isfield(n)
            THEN MkStmt(shapes[field(n)].keyword, shapes[field(n)].arg, 1,
                        IF shapes[field(n)].keyword \in {"leaf", "leaf-list"}
                        THEN SimpleType("uint32") ELSE NoType,
                        "",
                        IF shapes[field(n)].keyword = "list" THEN <<n + 1>> ELSE <<>>)
            ELSE MkStmt("leaf", "k", n - 1, SimpleType("string"), "", <<>>)]

InitField ==
    \E len \in 1..MaxFields :
        \E shapes \in [1..len -> FieldShapes] :
            /\ \A i, j \in 1..len : i # j => shapes[i].arg # shapes[j].arg
            /\ InitRun(OneModule(<<>>, <<1>>, FieldStmts(shapes)))

SpecField == InitField /\ [][NextEmit]_vars

(***************************************************************************)
(* The choice family: container foo { choice c { case ... } } with          *)
(* 0..MaxCases cases named a, b, ...; the children of a case are one of     *)
(* CaseKinds, named after the case so that no two cases share a child name. *)
(***************************************************************************)
CaseNames == <<"a", "b", "c">>

CaseKinds == {"same", "renamed", "two", "value", "mixed", "childless"}

CaseLeaf(name, type) == [keyword |-> "leaf", arg |-> name, type |-> SimpleType(type)]

CaseChildren(kind, i) ==
    LET a == CaseNames[i]
    IN  CASE kind = "same"      -> <<CaseLeaf(a, "empty")>>
          [] kind = "renamed"   -> <<CaseLeaf("p" \o a, "empty")>>
          [] kind = "two"       -> <<CaseLeaf("p" \o a, "empty"), CaseLeaf("q" \o a, "empty")>>
          [] kind = "value"     -> <<CaseLeaf("u" \o a, "uint32")>>
          [] kind = "mixed"     -> <<CaseLeaf("p" \o a, "empty"),
                                     [keyword |-> "container", arg |-> "k" \o a,
                                      type |-> NoType]>>
          [] kind = "childless" -> <<>>

\* the statement of case i: after foo, c, and the earlier cases with their children
RECURSIVE CaseId(_, _)
CaseId(kinds, i) ==
    IF i = 1 THEN 3
    ELSE CaseId(kinds, i - 1) + 1 + Len(CaseChildren(kinds[i - 1], i - 1))

ChoiceStmts(kinds) ==
    LET last == CaseId(kinds, Len(kinds) + 1) - 1
        case_of(n) == CHOOSE i \in DOMAIN kinds :
                         /\ CaseId(kinds, i) <= n
                         /\ n < CaseId(kinds, i + 1)
    IN  [n \in 1..last |->
            IF n = 1 THEN MkStmt("container", "foo", None, NoType, "", <<2>>)
            ELSE IF n = 2
            THEN MkStmt("choice", "c", 1, NoType, "",
                        [i \in DOMAIN kinds |-> CaseId(kinds, i)])
            ELSE LET i == case_of(n)
                     id == CaseId(kinds, i)
                     ch == CaseChildren(kinds[i], i)
                 IN  IF n = id
                     THEN MkStmt("case", CaseNames[i], 2, NoType, "",
                                 [k \in DOMAIN ch |-> id + k])
                     ELSE MkStmt(ch[n - id].keyword, ch[n - id].arg, id,
                                 ch[n - id].type, "", <<>>)]

InitChoice ==
    \E len \in 0..MaxCases :
        \E kinds \in [1..len -> CaseKinds] :
            InitRun(OneModule(<<>>, <<1>>, ChoiceStmts(kinds)))

SpecChoice == InitChoice /\ [][NextEmit]_vars

(***************************************************************************)
(* The name family: a module with 0..MaxDefs typedef and identity           *)
(* statements named foo or bar (no two typedefs and no two identities of    *)
(* one name), a container foo or box with a leaf foo or bar, and possibly a *)
(* container bax with a leaf of an embedded enumeration.  The definitions   *)
(* come first in document order.                                            *)
(***************************************************************************)
DefNames == {"foo", "bar"}

EnumType(enums) == [SimpleType("enumeration") EXCEPT !.enums = enums]

DefShapes ==
    [keyword : {"typedef"}, arg : DefNames, type : {EnumType(<<"a">>), SimpleType("uint32")},
     base : {""}]
    \cup {d \in [keyword : {"identity"}, arg : DefNames, type : {NoType},
                 base : {""} \cup DefNames] : d.base # d.arg}

LeafShapes(enums) == [arg : DefNames, type : {EnumType(enums), SimpleType("uint32")}]

NameStmts(defs, cname, leaf1, bax) ==
    LET d == Len(defs)
    IN  [n \in 1..(d + 2 + 2 * Len(bax)) |->
            IF n <= d THEN MkStmt(defs[n].keyword, defs[n].arg, None, defs[n].type,
                                  defs[n].base, <<>>)
            ELSE IF n = d + 1 THEN MkStmt("container", cname, None, NoType, "", <<d + 2>>)
            ELSE IF n = d + 2 THEN MkStmt("leaf", leaf1.arg, d + 1, leaf1.type, "", <<>>)
            ELSE IF n = d + 3 THEN MkStmt("container", "bax", None, NoType, "", <<d + 4>>)
            ELSE MkStmt("leaf", bax[1].arg, d + 3, bax[1].type, "", <<>>)]

InitName ==
    \E len \in 0..MaxDefs :
        \E defs \in [1..len -> DefShapes] :
            \E cname \in {"foo", "box"}, leaf1 \in LeafShapes(<<"b">>),
               bax \in {<<>>} \cup {<<l>> : l \in {e \in LeafShapes(<<"c">>) : is_enum(e.type)}} :
                /\ \A i, j \in 1..len :
                      i # j /\ defs[i].keyword = defs[j].keyword => defs[i].arg # defs[j].arg
                /\ InitRun(OneModule([i \in 1..len |-> i],
                                     IF bax = <<>> THEN <<len + 1>> ELSE <<len + 1, len + 3>>,
                                     NameStmts(defs, cname, leaf1, bax)))

SpecName == InitName /\ [][NextEmit]_vars

(***************************************************************************)
(* The registry family: NMods modules, every acyclic import graph of the   *)
(* dependency family, importers that use the imported module's own prefix  *)
(* or an alias of their own, every list of distinct modules handed to      *)
(* emit().  Module m holds statements 4m-3..4m: a typedef t, two          *)
(* identities foo and bar, a container c.  In one module (who) the         *)
(* identity bar has a base: foo, unqualified or qualified with a prefix of *)
(* who's i_prefixes table (its own, or the one of an import), and bar      *)
(* stands before or after foo.  Every base names a declared identity.      *)
(***************************************************************************)
RegBlock == 4

ModuleOf(n) == ((n - 1) \div RegBlock) + 1

\* the base references module m can write for an identity foo
BaseRefs(tables, m) ==
    {"foo"} \cup {tables[m][i][1] \o ":foo" : i \in DOMAIN tables[m]}

RegStmts(who, base, barfirst) ==
    [n \in 1..(RegBlock * NMods) |->
        LET m == ModuleOf(n)
            k == n - RegBlock * (m - 1)
            second == m = who /\ barfirst
            s == IF k = 1 THEN MkStmt("typedef", "t", None, SimpleType("uint32"), "", <<>>)
                 ELSE IF (k = 2 /\ ~second) \/ (k = 3 /\ second)
                      THEN MkStmt("identity", "foo", None, NoType, "", <<>>)
                 ELSE IF k \in {2, 3}
                      THEN MkStmt("identity", "bar", None, NoType,
                                  IF m = who THEN base ELSE "", <<>>)
                 ELSE MkStmt("container", "c", None, NoType, "", <<>>)
        IN  [s EXCEPT !.i_module = m, !.i_orig_module = m]]

RegModule(tables, m) ==
    [DepsModule(tables, "plain", m) EXCEPT
        !.substmts = [k \in 1..RegBlock |-> RegBlock * (m - 1) + k],
        !.i_children = <<RegBlock * m>>]

\* emit() line 76: the loop over the supplied modules is over (emit() may be
\* handed any list of distinct loaded modules) and visit_modules begins.
EmitVisitModules ==
    /\ pc.phase = "deps"
    /\ modules # <<>>
    /\ pc' = IF ctx.module_deps = <<>>
             THEN [phase |-> "visit_children", mi |-> 1, mod |-> None, todo |-> <<>>]
             ELSE [phase |-> "visit_typedef", mi |-> 1]
    /\ UNCHANGED <<yang, modules, ctx, attr, fd>>

InitRegistry ==
    \E r \in {{}, Mods} :
        \E tables \in TableFamilies(NMods, r) :
            \E who \in Mods, barfirst \in BOOLEAN :
                \E base \in BaseRefs(tables, who) :
                    /\ yang = [loaded |-> Mods,
                               module |-> [m \in Mods |-> RegModule(tables, m)],
                               stmt   |-> RegStmts(who, base, barfirst)]
                    /\ modules = <<>>
                    /\ ctx = EmptyCtx
                    /\ attr = InitAttr(yang.stmt)
                    /\ fd = <<>>
                    /\ pc = [phase |-> "deps"]

NextRegistry ==
    \/ EmitCheckDeps
    \/ EmitVisitModules
    \/ VisitTypedefIdentity
    \/ VisitModule
    \/ VisitChild

SpecRegistry == InitRegistry /\ [][NextRegistry]_vars

(***************************************************************************)
(* Claims about the dependency resolver (SpecDeps).  Every state of        *)
(* SpecDeps is the outcome of emit()'s loop for the list `modules`.        *)
(***************************************************************************)
\* C2 (as claimed): every module in ctx.module_deps appears at a later index
\* than every non-excluded module it imports, for every supply order and
\* every iteration order of the i_prefixes tables.
C2_DependencyOrdering ==
    \A j \in DOMAIN ctx.module_deps :
        \A n \in ImportsOf(ctx.module_deps[j]) :
            yang.module[n].i_modulename \notin module_excluded
                => \E i \in 1..(j - 1) : ctx.module_deps[i] = n

\* C5 (as claimed): the sequence ctx.module_deps is the same for every
\* permutation of the supplied module list.
C5_SupplyOrderIndependent ==
    \A p \in Perms(Range(modules)) :
        RunDeps(EmptyCtx, p).module_deps = ctx.module_deps

\* C5 (amended): for every permutation of the supplied module list,
\* ctx.module_deps holds the same set of modules, each exactly once; only
\* their order depends on the supply order.
C5_SameModuleSet ==
    LET ref == RunDeps(EmptyCtx, Ascending(Range(modules))).module_deps
    IN  /\ Range(ctx.module_deps) = Range(ref)
        /\ Cardinality(Range(ctx.module_deps)) = Len(ctx.module_deps)

\* A supply order whose result differs, as a sequence, from the result of
\* the ascending order of the same modules, one of which imports another.
C5_Witness ==
    /\ Len(modules) >= 2
    /\ \E m \in Range(modules) : ImportsOf(m) # {}
    /\ ctx.module_deps # RunDeps(EmptyCtx, Ascending(Range(modules))).module_deps

(***************************************************************************)
(* Claims about the struct registry (SpecVisit) and the order of the output *)
(* (SpecTree).                                                              *)
(***************************************************************************)
\* the statements visit_children has visited and handed to the registration
\* of lines 356-369
IsCandidate(n) ==
    /\ attr[n].uniq_name # Unset
    /\ is_list(n) \/ is_container(n) \/ (is_choice(n) /\ ~is_enum_choice(attr, n))

KeyOf(n) == get_orig_prefix(attr[n].i_orig_module) \o ":" \o attr[n].uniq_name

Candidates(key) == {n \in DOMAIN attr : IsCandidate(n) /\ KeyOf(n) = key}

\* statements are numbered in the order visit_children discovers them
FirstOf(key) == CHOOSE n \in Candidates(key) : \A m \in Candidates(key) : n <= m

StructKeys == {ctx.golang_struct_names[i][1] : i \in DOMAIN ctx.golang_struct_names}

\* C1 (as claimed): in the output, every other struct named by a container,
\* list or non-collapsed-choice field of an emitted struct S has been emitted
\* before S.
C1_ForwardReferenceFree ==
    \A i \in DOMAIN fd :
        fd[i].kind = "struct" =>
            \A k \in DOMAIN fd[i].fields :
                /\ fd[i].fields[k].ref # None
                /\ attr[fd[i].fields[k].ref].golang_name # fd[i].name
                =>
                    \E j \in 1..(i - 1) :
                        /\ fd[j].kind = "struct"
                        /\ fd[j].name = attr[fd[i].fields[k].ref].golang_name

\* C4: while visit_children runs and when it has returned, the node
\* registered under a key is the candidate of that key with the most
\* children, the earliest-discovered one on a tie, and it stands in
\* ctx.golang_struct_def where the first-discovered candidate of the key was
\* appended: keys stand in the order of their first discovery.
C4_MergeCorrectness ==
    pc.phase = "visit_children" =>
        LET cands == {n \in DOMAIN attr : IsCandidate(n)}
            key == [n \in cands |-> KeyOf(n)]
            first == {n \in cands : \A m \in cands : key[m] = key[n] => n <= m}
        IN  /\ \A n \in cands : DictHas(ctx.golang_struct_names, key[n])
            /\ \A f \in first :
                  LET w == DictGet(ctx.golang_struct_names, key[f])
                  IN  /\ w \in cands
                      /\ key[w] = key[f]
                      /\ \A n \in cands :
                            key[n] = key[f] =>
                                \/ Len(attr[n].i_children) < Len(attr[w].i_children)
                                \/ /\ Len(attr[n].i_children) = Len(attr[w].i_children)
                                   /\ w <= n
                      /\ IndexOf(ctx.golang_struct_def, w) =
                            Cardinality({g \in first : g <= f})
            /\ Len(ctx.golang_struct_def) = Cardinality(first)
            /\ Len(ctx.golang_struct_names) = Cardinality(first)

\* visit_children has returned; a key was discovered twice, the later
\* candidate has more children and is the one registered, at the index of
\* the first one, before a key discovered in between.
C4_Witness ==
    /\ pc.phase = "visit_children"
    /\ pc.todo = <<>>
    /\ pc.mi > Len(ctx.module_deps)
    /\ \E key \in StructKeys :
          LET w == DictGet(ctx.golang_struct_names, key)
          IN  /\ FirstOf(key) < w
              /\ Len(attr[FirstOf(key)].i_children) < Len(attr[w].i_children)
              /\ \E k2 \in StructKeys :
                    /\ FirstOf(key) < FirstOf(k2)
                    /\ FirstOf(k2) < w
                    /\ IndexOf(ctx.golang_struct_def, w) <
                          IndexOf(ctx.golang_struct_def,
                                  DictGet(ctx.golang_struct_names, k2))

\* ctx.golang_struct_def holds no node twice and exactly the nodes stored
\* under the keys of ctx.golang_struct_names
StructRegistryConsistent ==
    /\ \A i, j \in DOMAIN ctx.golang_struct_def :
          i # j => ctx.golang_struct_def[i] # ctx.golang_struct_def[j]
    /\ Len(ctx.golang_struct_def) = Len(ctx.golang_struct_names)
    /\ \A k \in DOMAIN ctx.golang_struct_names :
          /\ ctx.golang_struct_names[k][2] \in Range(ctx.golang_struct_def)
          /\ \A l \in DOMAIN ctx.golang_struct_names :
                k # l => ctx.golang_struct_names[k][1] # ctx.golang_struct_names[l][1]

\* a step of visit_children that registers the node under a key that is
\* already there changes ctx.golang_struct_def at most where the node
\* stored under the key stood, and there it puts the node of the step
RegistrationInPlace ==
    /\ pc.phase = "visit_children"
    /\ pc.todo # <<>>
    /\ pc'.phase = "visit_children"
    => \A n \in {Head(pc.todo)} :
          /\ IsCandidate(n)'
          /\ DictHas(ctx.golang_struct_names, KeyOf(n)')
          => /\ Len(ctx.golang_struct_def') = Len(ctx.golang_struct_def)
             /\ \A i \in DOMAIN ctx.golang_struct_def :
                   ctx.golang_struct_def'[i] # ctx.golang_struct_def[i] =>
                      /\ ctx.golang_struct_def[i] =
                            DictGet(ctx.golang_struct_names, KeyOf(n)')
                      /\ ctx.golang_struct_def'[i] = n

\* C13: in every state of visit_modules, ctx.golang_struct_def holds no node
\* twice and has exactly one element per key of ctx.golang_struct_names, the
\* node stored under the key; a registration whose key already exists leaves
\* the length of ctx.golang_struct_def and every other position unchanged.
C13_StructRegistryConsistency ==
    []StructRegistryConsistent /\ [][RegistrationInPlace]_vars

\* visit_children is running; a key was registered a second time and the
\* later node, which has more children, has replaced the first one, with
\* another key registered behind it.
C13_Witness ==
    /\ pc.phase = "visit_children"
    /\ pc.todo # <<>>
    /\ \E key \in StructKeys :
          LET w == DictGet(ctx.golang_struct_names, key)
          IN  /\ w # FirstOf(key)
              /\ FirstOf(key) \notin Range(ctx.golang_struct_def)
              /\ IndexOf(ctx.golang_struct_def, w) < Len(ctx.golang_struct_def)

(***************************************************************************)
(* Claims about the types of leaves and leaf-lists (SpecLeaf).             *)
(***************************************************************************)
\* emit() has returned or an exception has ended it
RunEnded == Finished \/ pc.phase = "error"

\* the fields the output holds for the statement child
FieldsOf(child) ==
    UNION {{fd[i].fields[k] : k \in {j \in DOMAIN fd[i].fields : fd[i].fields[j].child = child}} :
           i \in DOMAIN fd}

\* the leaf at the end of the chain of leafrefs that starts at leaf n
RECURSIVE leafref_end(_)
leafref_end(n) ==
    IF is_leafref(Stmt(n).type) THEN leafref_end(Stmt(n).type.i_target_node) ELSE n

\* C7 (as claimed): when the run is over, every leaf declared as a chain of
\* leafrefs has a field in the output, and its type is the type of the field
\* of the leaf the chain ends at, which is declared with the concrete type.
C7_LeafrefChaining ==
    RunEnded =>
        \A c \in DOMAIN yang.stmt :
            is_leaf(c) /\ is_leafref(Stmt(c).type) =>
                \E f \in FieldsOf(c) :
                    \E g \in FieldsOf(leafref_end(c)) : f.type = g.type

\* C10 (as claimed): when the run is over, every leaf-list whose declared
\* type a leaf resolves to T has a field of type Vec<T> in the output, tagged
\* with the leaf's tag and '-list'.
C10_LeafListAsLeaf ==
    RunEnded =>
        \A l \in DOMAIN yang.stmt :
            is_leaflist(l) /\ ~is_enum(Stmt(l).type) =>
                LET lf == leaf_type_name(ctx, attr, l)
                IN  lf.error = "" /\ ~lf.skip =>
                        \E f \in FieldsOf(l) :
                            /\ f.type = "Vec<" \o lf.name \o ">"
                            /\ f.tag = StrLower(attr[l].uniq_name) \o "-list"

(***************************************************************************)
(* Claims about the wire tags of a struct's fields (SpecField).            *)
(***************************************************************************)
\* C8 (as claimed): in every emitted struct no two fields have the same tag,
\* and a container field is tagged 'config' or 'state' only when its struct
\* name is exactly the enclosing struct's name followed by Config or State.
C8_FieldTagsUnique ==
    \A i \in DOMAIN fd :
        fd[i].kind = "struct" =>
            /\ \A j, k \in DOMAIN fd[i].fields :
                  j # k => fd[i].fields[j].tag # fd[i].fields[k].tag
            /\ \A k \in DOMAIN fd[i].fields :
                  LET f == fd[i].fields[k]
                  IN  /\ is_container(f.child) /\ f.tag = "config"
                         => f.type = fd[i].name \o "Config"
                      /\ is_container(f.child) /\ f.tag = "state"
                         => f.type = fd[i].name \o "State"

(***************************************************************************)
(* Claims about choices (SpecChoice).                                      *)
(***************************************************************************)
\* the children of the cases of choice c, as declared
CaseChildrenOf(c) ==
    Concat([i \in DOMAIN Stmt(c).i_children |-> Stmt(Stmt(c).i_children[i]).i_children])

\* every child of every case of c is a leaf of the presence type
AllPresence(c) ==
    \A e \in Range(CaseChildrenOf(c)) : is_leaf(e) /\ Stmt(e).type.arg \in type_enum_case

\* C6 (as claimed): when the run is over, a choice whose case children are
\* all presence leaves is in no struct registry entry and is emitted as one
\* enumeration with the variants 'none' and the case names; any other choice
\* is registered and emitted as a struct whose fields are the children of
\* its cases, in order.
C6_ChoiceCollapse ==
    RunEnded =>
        \A c \in DOMAIN yang.stmt :
            is_choice(c) =>
                IF AllPresence(c)
                THEN /\ c \notin Range(ctx.golang_struct_def)
                     /\ \E i \in DOMAIN fd :
                           /\ fd[i].kind = "enum"
                           /\ fd[i].stmt = c
                           /\ [k \in DOMAIN fd[i].variants |-> fd[i].variants[k].arg] =
                                 <<"none">> \o [k \in DOMAIN Stmt(c).i_children |->
                                                   Stmt(Stmt(c).i_children[k]).arg]
                ELSE /\ c \in Range(ctx.golang_struct_def)
                     /\ \E i \in DOMAIN fd :
                           /\ fd[i].kind = "struct"
                           /\ fd[i].stmt = c
                           /\ [k \in DOMAIN fd[i].fields |-> fd[i].fields[k].child] =
                                 CaseChildrenOf(c)

(***************************************************************************)
(* Claims about the names of the emitted types (SpecName).                 *)
(***************************************************************************)
\* C3 (as claimed): no two items of the output (aliases, enumerations,
\* structs) have the same type name.
C3_TypeNamesUnique ==
    \A i, j \in DOMAIN fd : i # j => fd[i].name # fd[j].name

\* the enumeration definitions of the module, numbered in the order of their
\* registration: the typedefs by visit_typedef, then the leaves by define_enum
EnumDefs == {n \in DOMAIN yang.stmt : (is_typedef(n) \/ is_leaf(n)) /\ is_enum(Stmt(n).type)}

FirstEnumDef(n) ==
    CHOOSE m \in EnumDefs :
        /\ Stmt(m).arg = Stmt(n).arg
        /\ \A k \in EnumDefs : Stmt(k).arg = Stmt(n).arg => m <= k

\* C9 (as claimed): when emit() has returned, the enumeration emitted under
\* the name of an enumeration definition carries the variants of the first
\* registered definition of that name.
C9_FirstEnumWins ==
    Finished =>
        \A n \in EnumDefs :
            \E i \in DOMAIN fd :
                /\ fd[i].kind = "enum"
                /\ fd[i].name = convert_to_golang(Stmt(n).arg)
                /\ [k \in DOMAIN fd[i].variants |-> fd[i].variants[k].arg] =
                      Stmt(FirstEnumDef(n)).type.enums

(***************************************************************************)
(* Claims about the identity and typedef registries (SpecRegistry).        *)
(***************************************************************************)
\* the modules visit_modules visits
Visited == Range(ctx.module_deps)

\* the first loop of visit_modules has returned
RegistriesBuilt == pc.phase = "visit_children"

IdentitiesOf(m) == {n \in Range(yang.module[m].substmts) : is_identity(n)}

\* the module a base reference of module m names: the one its prefix stands
\* for in m's i_prefixes, m itself when the reference is unqualified
BaseModule(m, base) ==
    IF Len(Split(base, ":")) = 1 THEN m
    ELSE IF DictHas(yang.module[m].i_prefixes, Split(base, ":")[1])
         THEN get_module(DictGet(yang.module[m].i_prefixes, Split(base, ":")[1]))
         ELSE None

\* the identity the base of identity d names, None when there is none
DeclaredBase(d) ==
    LET base == Stmt(d).base
        m == BaseModule(Stmt(d).i_module, base)
        name == Split(base, ":")[Len(Split(base, ":"))]
    IN  IF m # None /\ \E b \in IdentitiesOf(m) : Stmt(b).arg = name
        THEN CHOOSE b \in IdentitiesOf(m) : Stmt(b).arg = name
        ELSE None

\* C11 (as claimed): no base reference that names a declared identity ends
\* the run with an exception, and when the first loop of visit_modules has
\* returned, every identity D of a visited module whose base B is declared
\* in a visited module stands in B.substmts, for an unqualified and for a
\* qualified base reference, B declared before or after D.
C11_IdentityDescendantsComplete ==
    /\ pc.phase # "error"
    /\ RegistriesBuilt =>
          \A d \in DOMAIN yang.stmt :
              /\ is_identity(d)
              /\ Stmt(d).base # ""
              /\ Stmt(d).i_module \in Visited
              /\ DeclaredBase(d) # None
              /\ Stmt(DeclaredBase(d)).i_module \in Visited
              => d \in Range(attr[DeclaredBase(d)].substmts)

\* the aliases under which supplied modules other than m import m
ImportAliases(m) ==
    UNION {{yang.module[n].i_prefixes[i][1] :
               i \in {j \in DOMAIN yang.module[n].i_prefixes :
                         get_module(yang.module[n].i_prefixes[j][2]) = m}} :
           n \in Range(modules) \ {m}}

\* basemap has an entry under alias that holds the entries of m's registry
SameRegistry(basemap, alias, m) ==
    /\ DictHas(basemap, alias)
    /\ DictHas(basemap, yang.module[m].i_prefix)
    /\ ctx.heap[DictGet(basemap, alias)] =
          ctx.heap[DictGet(basemap, yang.module[m].i_prefix)]

\* C12 (as claimed): when the first loop of visit_modules has returned, for
\* every visited module M and every alias under which another supplied
\* module imports M, ctx.golang_typedef_map and ctx.golang_identity_map each
\* have an entry under that alias with the entries of M's registry.
C12_RegistriesReachableByAlias ==
    RegistriesBuilt =>
        \A m \in Visited :
            \A alias \in ImportAliases(m) :
                /\ SameRegistry(ctx.golang_typedef_map, alias, m)
                /\ SameRegistry(ctx.golang_identity_map, alias, m)

=============================================================================
